---- MODULE Spec2Model ----
(***************************************************************************)
(* Model of the customer lookup application: the data-access layer of      *)
(* database_config.py (search_customers, get_customer_by_id,               *)
(* execute_query) and the Streamlit client of streamlit_app.py (HTTP       *)
(* search / lookup helpers, the PDF record grid, the tabular display).     *)
(*                                                                         *)
(* Text is modelled as a sequence of one-character strings, so that SQL    *)
(* LIKE patterns, substring tests and number formatting are computed and   *)
(* not assumed.  A CJK character is written as its romanised name ("xiao"  *)
(* is one character).  A date is a positive day number; 0 is SQL NULL.     *)
(***************************************************************************)
EXTENDS Integers, Sequences, FiniteSets, TLC

VARIABLES
    db_type,        \* DatabaseConfig.db_type: "sqlite" or "postgresql"
    store,          \* rows of sample_customers, in storage order
    storeUp,        \* FALSE while engine.connect()/execute raises
    call,           \* the last operation and its arguments
    ret,            \* what the last operation handed to its caller
    log,            \* logger entries written by the last operation
    ui,             \* st.error / st.warning messages shown by the last operation
    cache_search,   \* st.cache_data store of the client's search_customers
    cache_by_id,    \* st.cache_data store of the client's get_customer_by_id
    customer_data,  \* the record handed to generate_pdf_report
    table_data,     \* the grid built by generate_pdf_report
    customers,      \* the records handed to display_customers_as_dataframe
    df_points,      \* the points column shown by display_customers_as_dataframe
    font_env,       \* the font files on disk and whether registerFont accepts them
    fonts,          \* the font of each part of the document generate_pdf_report built
    all_customers,  \* the records display_search_results shows
    selected_customers, \* the options picked in its multiselect
    print_log,      \* the body of the last POST /print-log
    search_results, \* st.session_state.search_results
    search_performed,   \* st.session_state.search_performed
    db_config       \* the settings DatabaseConfig read from the environment

vars == <<db_type, store, storeUp, call, ret, log, ui,
          cache_search, cache_by_id, customer_data, table_data,
          customers, df_points, font_env, fonts, all_customers,
          selected_customers, print_log, search_results, search_performed,
          db_config>>

storeVars  == <<db_type, store, storeUp>>
cacheVars  == <<cache_search, cache_by_id>>
renderVars == <<customer_data, table_data, customers, df_points>>
fontVars   == <<font_env, fonts>>
batchVars  == <<all_customers, selected_customers>>
sessionVars == <<search_results, search_performed>>
pageVars   == <<fontVars, batchVars, print_log, sessionVars, db_config>>

----------------------------------------------------------------------------
(* Bounds *)

MaxRows     == 2     \* rows in the store of the search specification
MaxApiRows  == 2     \* rows in the store of the client specification
MaxListRows == 22    \* rows in the store of the listing specification

(* Program constants *)

PageSize == 20       \* LIMIT 20 of the default listing

----------------------------------------------------------------------------
(* Text *)

NULL == 0            \* SQL NULL of a DATE column
QNone == <<"<None>">>   \* Python None passed as the query argument

\* str.lower() on the characters the model uses (Unicode case folding).
Lower(c) ==
    CASE c = "A" -> "a"
      [] c = "M" -> "m"
      [] c = "Y" -> "y"
      [] c = "É" -> "é"
      [] OTHER -> c

\* Case folding of SQLite's built-in LIKE: ASCII letters only.
AsciiLower(c) ==
    CASE c = "A" -> "a"
      [] c = "M" -> "m"
      [] c = "Y" -> "y"
      [] OTHER -> c

LowerStr(s) == [i \in 1..Len(s) |-> Lower(s[i])]

\* Python's `q in s` on two texts.
Contains(s, q) ==
    \E i \in 0..(Len(s) - Len(q)) :
        \A j \in 1..Len(q) : s[i + j] = q[j]

\* Case-insensitive substring test.
ContainsCI(s, q) == Contains(LowerStr(s), LowerStr(q))

\* Python truthiness of the query argument: None and "" are falsy.
Falsy(q) == q = QNone \/ q = <<>>

----------------------------------------------------------------------------
(* The record store: table sample_customers *)

M001 == <<"M", "0", "0", "1">>
M002 == <<"M", "0", "0", "2">>
M999 == <<"M", "9", "9", "9">>

RowM001 == [member_id |-> M001, name |-> <<"wang", "xiao", "ming">>,
            phone |-> <<"0", "9", "1", "2", "3", "4", "5", "6", "7", "8">>,
            email |-> <<"w", "@", "x">>, last_visit |-> 3]
RowM002 == [member_id |-> M002, name |-> <<"chen", "xiao", "hua">>,
            phone |-> <<"0", "9", "8", "7", "6", "5", "4", "3", "2", "1">>,
            email |-> <<"c", "@", "x">>, last_visit |-> 2]
RowAmy  == [member_id |-> <<"A", "7">>, name |-> <<"A", "m", "y">>,
            phone |-> <<"0", "2", "5">>,
            email |-> <<"É", "@", "z">>, last_visit |-> NULL]
RowM001b == [member_id |-> M001, name |-> <<"m", "a">>,
             phone |-> <<"0", "9", "_", "1">>,
             email |-> <<"w", "@", "x">>, last_visit |-> 3]

\* Rows the external insertion paths may put in the table of the client
\* specification.  RowM001b repeats the member id of RowM001: the code
\* declares no key on sample_customers.
RowPool == {RowM001, RowM001b}

\* Rows of the search specification: the two records of the documented
\* scenario and one with Latin letters in both cases and no last visit.
SearchPool == {RowM001, RowM002, RowAmy}

Selectors == {"member_id", "name", "phone", "all"}

Queries == { QNone, <<>>, <<"0", "9", "1">>, <<"s", "m", "a", "l", "l">>,
             <<"a">>, <<"é">>, <<"_">>, <<"z">>, <<"xiao">> }

Ids == { M001, M999, <<"m", "0", "0", "1">>, <<"M", "0", "0">> }

\* DatabaseConfig.get_database_url / create_engine pick the engine by
\* db_type.lower() == "postgresql".
DbTypes == {"sqlite", "postgresql", "PostgreSQL"}

LowerName(t) == IF t = "PostgreSQL" THEN "postgresql" ELSE t

IsPostgres(db) == LowerName(db) = "postgresql"

\* Character comparison of the engine's LIKE operator: PostgreSQL compares
\* exactly, SQLite folds ASCII letters.
LikeCharEq(p, c, db) ==
    IF IsPostgres(db) THEN p = c ELSE AsciiLower(p) = AsciiLower(c)

\* SQL `s LIKE pat`: % matches any run of characters, _ any one character.
RECURSIVE Like(_, _, _)
Like(s, pat, db) ==
    IF pat = <<>> THEN s = <<>>
    ELSE IF Head(pat) = "%"
         THEN Like(s, Tail(pat), db) \/ (s # <<>> /\ Like(Tail(s), pat, db))
         ELSE /\ s # <<>>
              /\ (Head(pat) = "_" \/ LikeCharEq(Head(pat), Head(s), db))
              /\ Like(Tail(s), Tail(pat), db)

\* f"%{query}%"
Wildcarded(q) == <<"%">> \o q \o <<"%">>

\* The WHERE clause search_customers builds for a selector.
Where(row, t, pat, db) ==
    CASE t = "member_id" -> Like(row.member_id, pat, db)
      [] t = "name"      -> Like(row.name, pat, db)
      [] t = "phone"     -> Like(row.phone, pat, db)
      [] OTHER           -> \/ Like(row.member_id, pat, db)
                            \/ Like(row.name, pat, db)
                            \/ Like(row.phone, pat, db)
                            \/ Like(row.email, pat, db)

\* Position of a last_visit value under ORDER BY last_visit DESC: NULL sorts
\* as the largest value in PostgreSQL and as the smallest in SQLite.
NullsFirstKey == 1000000
SortKey(row, db) ==
    IF row.last_visit = NULL
    THEN (IF IsPostgres(db) THEN NullsFirstKey ELSE -1)
    ELSE row.last_visit

RECURSIVE InsertDesc(_, _, _)
InsertDesc(r, sorted, db) ==
    IF sorted = <<>> THEN <<r>>
    ELSE IF SortKey(Head(sorted), db) >= SortKey(r, db)
         THEN <<Head(sorted)>> \o InsertDesc(r, Tail(sorted), db)
         ELSE <<r>> \o sorted

RECURSIVE SortDesc(_, _)
SortDesc(rows, db) ==
    IF rows = <<>> THEN <<>>
    ELSE InsertDesc(rows[Len(rows)], SortDesc(SubSeq(rows, 1, Len(rows) - 1), db), db)

Range(s) == {s[i] : i \in DOMAIN s}

Reverse(s) == [i \in 1..Len(s) |-> s[Len(s) + 1 - i]]

\* ORDER BY last_visit DESC.  The engine is free in the order of rows with
\* equal last_visit: rev chooses storage order or its reverse among them.
OrderByLastVisitDesc(rows, db, rev) ==
    SortDesc(IF rev THEN Reverse(rows) ELSE rows, db)

Limit(rows, n) == SubSeq(rows, 1, IF Len(rows) < n THEN Len(rows) ELSE n)

\* Values a Python function hands back: a list of rows, one row, None, an
\* empty dict, or a raised exception.
Out(kind, rows) == [kind |-> kind, rows |-> rows]

Raised == Out("raise", <<>>)
None   == Out("None", <<>>)

\* The rows search_customers selects when the store answers.
SearchRows(q, t, db, st, rev) ==
    IF Falsy(q)
    THEN Limit(OrderByLastVisitDesc(st, db, rev), PageSize)
    ELSE LET hit(row) == Where(row, t, Wildcarded(q), db)
             rows == SelectSeq(st, hit)
         IN IF t \in {"member_id", "name", "phone"}
            THEN rows
            ELSE OrderByLastVisitDesc(rows, db, rev)

\* database_config.search_customers: the value returned, or the raise.
DbSearchResult(q, t, db, st, up, rev) ==
    IF up THEN Out("list", SearchRows(q, t, db, st, rev)) ELSE Raised

\* logger.error entries of execute_query and of the except clause above it.
DbSearchLog(up) ==
    IF up THEN <<>> ELSE <<"execute_query: error", "search_customers: error">>

\* A lookup that matched the id as a pattern, as the searches do.
RowsByIdLike(id, st) == SelectSeq(st, LAMBDA row : Contains(row.member_id, id))

\* Rows of WHERE member_id = :member_id
RowsById(id, st) == SelectSeq(st, LAMBDA row : row.member_id = id)

\* database_config.get_customer_by_id: result[0] if result else None
DbLookupResult(id, st, up) ==
    IF ~up THEN Raised
    ELSE LET result == RowsById(id, st)
         IN IF result # <<>> THEN Out("row", <<result[1]>>) ELSE None

DbLookupLog(up) ==
    IF up THEN <<>> ELSE <<"execute_query: error", "get_customer_by_id: error">>

\* The record of one step: the operation, its arguments (q, t for a search,
\* id for a lookup, args for the three inputs of the search form) and what
\* became of the request it sent: "none" when it sent none, the response
\* status, or "exception" when the transport raised.
Call(fn, q, t, id, args, req) ==
    [fn |-> fn, q |-> q, t |-> t, id |-> id, args |-> args, req |-> req]

NoCall == Call("none", <<>>, "", <<>>, <<>>, "none")

----------------------------------------------------------------------------
(* Store events, outside the code's control.  call, ret, log and ui always  *)
(* describe the last step, so an event clears what an earlier call left.   *)

Event(name) ==
    /\ call' = Call(name, <<>>, "", <<>>, <<>>, "none")
    /\ ret' = None
    /\ log' = <<>>
    /\ ui' = <<>>

InsertRow(pool, max) ==
    /\ Len(store) < max
    /\ \E r \in pool : store' = Append(store, r)
    /\ Event("store.insert")
    /\ UNCHANGED <<db_type, storeUp>>
    /\ UNCHANGED cacheVars /\ UNCHANGED renderVars /\ UNCHANGED pageVars

DeleteRow ==
    /\ \E i \in 1..Len(store) :
          store' = SubSeq(store, 1, i - 1) \o SubSeq(store, i + 1, Len(store))
    /\ Event("store.delete")
    /\ UNCHANGED <<db_type, storeUp>>
    /\ UNCHANGED cacheVars /\ UNCHANGED renderVars /\ UNCHANGED pageVars

StoreOutage ==
    /\ storeUp' = ~storeUp
    /\ Event("store.outage")
    /\ UNCHANGED <<db_type, store>>
    /\ UNCHANGED cacheVars /\ UNCHANGED renderVars /\ UNCHANGED pageVars

----------------------------------------------------------------------------
(* database_config.py *)

\* The engine's choice among rows of equal last_visit matters only where the
\* statement has an ORDER BY: the default listing and the "all" selector.
TieOrders(q, t) ==
    IF Falsy(q) \/ t \notin {"member_id", "name", "phone"} THEN BOOLEAN ELSE {FALSE}

DbSearch(qs) ==
    \E q \in qs, t \in Selectors : \E rev \in TieOrders(q, t) :
        /\ call' = Call("db.search_customers", q, t, <<>>, <<>>, "none")
        /\ ret' = DbSearchResult(q, t, db_type, store, storeUp, rev)
        /\ log' = DbSearchLog(storeUp)
        /\ ui' = <<>>
        /\ UNCHANGED storeVars /\ UNCHANGED cacheVars /\ UNCHANGED renderVars /\ UNCHANGED pageVars

DbSearchCustomers == DbSearch(Queries)

DbGetCustomerById ==
    \E id \in Ids :
        /\ call' = Call("db.get_customer_by_id", <<>>, "", id, <<>>, "none")
        /\ ret' = DbLookupResult(id, store, storeUp)
        /\ log' = DbLookupLog(storeUp)
        /\ ui' = <<>>
        /\ UNCHANGED storeVars /\ UNCHANGED cacheVars /\ UNCHANGED renderVars /\ UNCHANGED pageVars

----------------------------------------------------------------------------
(* The environment of the page: font files and database settings *)

\* possible_paths of generate_pdf_report, in the order tried.  The second
\* and third are the same text; all four name one file of the working
\* directory.
PossiblePaths ==
    << "font/NotoSansTC-Regular.ttf",
       "./font/NotoSansTC-Regular.ttf",
       "./font/NotoSansTC-Regular.ttf",
       "<cwd>/font/NotoSansTC-Regular.ttf" >>

FontFiles == { PossiblePaths[i] : i \in DOMAIN PossiblePaths }

\* files: the candidate paths os.path.exists accepts; registers: whether
\* TTFont / registerFont accept the file; cwd: whether os.getcwd() succeeds.
FontEnv(files, registers, cwd) ==
    [files |-> files, registers |-> registers, cwd |-> cwd]

BundledFont == FontEnv(FontFiles, TRUE, TRUE)

\* The environments a run can meet: the font file is there or not, readable
\* as a font or not; without a working directory no relative path exists.
FontEnvs ==
    { FontEnv(f, r, c) : f \in {{}, FontFiles}, r \in BOOLEAN, c \in BOOLEAN } \
    { FontEnv(FontFiles, r, FALSE) : r \in BOOLEAN }

NoFonts == <<>>

\* The defaults of DatabaseConfig.__init__.
DefaultConfig ==
    [ sqlite_path       |-> <<"l", "o", "c", "a", "l", "_", "d", "a", "t", "a", "b", "a", "s", "e", ".", "d", "b">>,
      postgres_host     |-> <<"l", "o", "c", "a", "l", "h", "o", "s", "t">>,
      postgres_port     |-> <<"5", "4", "3", "2">>,
      postgres_db       |-> <<"y", "o", "u", "r", "_", "d", "a", "t", "a", "b", "a", "s", "e">>,
      postgres_user     |-> <<"y", "o", "u", "r", "_", "u", "s", "e", "r", "n", "a", "m", "e">>,
      postgres_password |-> <<"y", "o", "u", "r", "_", "p", "a", "s", "s", "w", "o", "r", "d">> ]

\* No page is open: nothing rendered, selected, logged or searched yet.
InitNoBatch ==
    /\ all_customers = <<>>
    /\ selected_customers = <<>>

InitNoSession ==
    /\ search_results = <<>>
    /\ search_performed = FALSE

InitNoFont ==
    /\ font_env = BundledFont
    /\ fonts = NoFonts

InitNoPage ==
    /\ InitNoFont
    /\ InitNoBatch
    /\ print_log = <<>>
    /\ InitNoSession
    /\ db_config = DefaultConfig

----------------------------------------------------------------------------
(* Specification of the data-access layer on a small store *)

InitObserved ==
    /\ call = NoCall
    /\ ret = None
    /\ log = <<>>
    /\ ui = <<>>

\* The client is not running: its caches and render inputs stay empty.
InitNoClient ==
    /\ cache_search = <<>>
    /\ cache_by_id = <<>>

InitNoRender ==
    /\ customer_data = <<>>
    /\ table_data = <<>>
    /\ customers = <<>>
    /\ df_points = <<>>

InitRest == InitObserved /\ InitNoClient /\ InitNoRender /\ InitNoPage

InitSearch ==
    /\ db_type \in {"sqlite", "postgresql"}
    /\ store = <<>>
    /\ storeUp = TRUE
    /\ InitRest

NextSearch ==
    \/ InsertRow(SearchPool, MaxRows)
    \/ DeleteRow
    \/ StoreOutage
    \/ DbSearchCustomers

SpecSearch == InitSearch /\ [][NextSearch]_vars

----------------------------------------------------------------------------
(* Specification of the default listing on a store larger than a page *)

\* Decimal digits of a natural number, most significant first: str(n).
Digit(d) ==
    CASE d = 0 -> "0" [] d = 1 -> "1" [] d = 2 -> "2" [] d = 3 -> "3"
      [] d = 4 -> "4" [] d = 5 -> "5" [] d = 6 -> "6" [] d = 7 -> "7"
      [] d = 8 -> "8" [] d = 9 -> "9"

RECURSIVE Digits(_)
Digits(n) == IF n < 10 THEN <<Digit(n)>> ELSE Append(Digits(n \div 10), Digit(n % 10))

\* How last visits are spread over the rows of a large table: "rising" (the
\* newest rows were visited last), "ties" (three days shared by all rows),
\* "gaps" (every fourth customer has never visited), "same" (one day).
ListPatterns == {"rising", "ties", "gaps", "same"}

ListVisit(i, k) ==
    CASE k = "rising" -> i
      [] k = "ties"   -> (i % 3) + 1
      [] k = "gaps"   -> IF i % 4 = 0 THEN NULL ELSE i
      [] OTHER        -> 1

ListRow(i, k) ==
    [member_id |-> <<"M">> \o Digits(i), name |-> <<"n">>, phone |-> <<"0">>,
     email |-> <<"@">>, last_visit |-> ListVisit(i, k)]

ListStore(n, k) == [i \in 1..n |-> ListRow(i, k)]

InitList ==
    /\ db_type \in {"sqlite", "postgresql"}
    /\ \E n \in 0..MaxListRows, k \in ListPatterns : store = ListStore(n, k)
    /\ storeUp = TRUE
    /\ InitRest

DbListCustomers == DbSearch({QNone, <<>>})

NextList ==
    \/ DbListCustomers
    \/ StoreOutage

SpecList == InitList /\ [][NextList]_vars

----------------------------------------------------------------------------
(* The REST service the client talks to.  Its handlers are not part of the  *)
(* sources at hand; they follow the interface of the specification:        *)
(*   GET /customers/search?q&search_type -> {customers: [Record]}          *)
(*   GET /customers/{id} -> {customer: Record} | 404                       *)
(* backed by the data-access layer above, a failing query giving a 500.    *)

Response(status, rows) == [status |-> status, rows |-> rows]

\* requests.get raised: connection refused, timeout.
TransportError == Response("exception", <<>>)

ServerSearch(q, t, db, st, up, rev) ==
    IF up THEN Response("200", SearchRows(q, t, db, st, rev))
    ELSE Response("500", <<>>)

ServerGetById(id, st, up) ==
    IF ~up THEN Response("500", <<>>)
    ELSE IF RowsById(id, st) = <<>> THEN Response("404", <<>>)
    ELSE Response("200", <<RowsById(id, st)[1]>>)

----------------------------------------------------------------------------
(* streamlit_app.py: the HTTP client *)

Q091   == <<"0", "9", "1">>
QSmall == <<"s", "m", "a", "l", "l">>

\* Arguments the Presentation Shell passes to the cached client functions.
HttpSearchKeys == { <<Q091, "all">> }
HttpIds == { M001 }

\* Inputs of the three text fields of the search form.
FormIds    == { <<>>, M001 }
FormNames  == { <<>>, QSmall }
FormPhones == { <<>>, Q091 }

\* An entry of st.cache_data: the value returned by the function body and
\* the st elements it showed, replayed on a hit.
Entry(r, msgs) == [hit |-> TRUE, ret |-> r, ui |-> msgs]
NoEntry == [hit |-> FALSE, ret |-> None, ui |-> <<>>]

\* params of search_customers: "q" is sent only for a truthy query.
SearchParamQ(q) == IF Falsy(q) THEN QNone ELSE q

\* Body of search_customers: the value returned for a response.
ClientSearchResult(resp) ==
    IF resp.status = "200" THEN Out("list", resp.rows) ELSE Out("list", <<>>)

ClientSearchUi(resp) ==
    CASE resp.status = "200"       -> <<>>
      [] resp.status = "exception" -> <<"st.error: cannot search customers">>
      [] OTHER                     -> <<"st.error: search failed: HTTP status">>

\* Body of get_customer_by_id: data.get("customer", {}) on 200, None on 404,
\* None on any other status and on an exception.
ClientLookupResult(resp) ==
    IF resp.status = "200" THEN Out("row", resp.rows) ELSE None

ClientLookupUi(resp) ==
    CASE resp.status \in {"200", "404"} -> <<>>
      [] resp.status = "exception"      -> <<"st.error: cannot get customer">>
      [] OTHER                          -> <<"st.error: get customer failed: HTTP status">>

\* search_customers under @st.cache_data(ttl=60)
HttpSearchCustomers ==
    \E k \in HttpSearchKeys, net \in BOOLEAN : \E rev \in TieOrders(k[1], k[2]) :
        LET e    == cache_search[k]
            resp == IF net
                    THEN ServerSearch(SearchParamQ(k[1]), k[2], db_type, store, storeUp, rev)
                    ELSE TransportError
        IN /\ IF e.hit
              THEN /\ call' = Call("http.search_customers", k[1], k[2], <<>>, <<>>, "none")
                   /\ ret' = e.ret
                   /\ ui' = e.ui
                   /\ UNCHANGED cache_search
              ELSE /\ call' = Call("http.search_customers", k[1], k[2], <<>>, <<>>, resp.status)
                   /\ ret' = ClientSearchResult(resp)
                   /\ ui' = ClientSearchUi(resp)
                   /\ cache_search' = [cache_search EXCEPT
                          ![k] = Entry(ClientSearchResult(resp), ClientSearchUi(resp))]
           /\ log' = <<>>
           /\ UNCHANGED storeVars /\ UNCHANGED cache_by_id /\ UNCHANGED renderVars /\ UNCHANGED pageVars

\* get_customer_by_id under @st.cache_data(ttl=300)
HttpGetCustomerById ==
    \E id \in HttpIds, net \in BOOLEAN :
        LET e    == cache_by_id[id]
            resp == IF net THEN ServerGetById(id, store, storeUp) ELSE TransportError
        IN /\ IF e.hit
              THEN /\ call' = Call("http.get_customer_by_id", <<>>, "", id, <<>>, "none")
                   /\ ret' = e.ret
                   /\ ui' = e.ui
                   /\ UNCHANGED cache_by_id
              ELSE /\ call' = Call("http.get_customer_by_id", <<>>, "", id, <<>>, resp.status)
                   /\ ret' = ClientLookupResult(resp)
                   /\ ui' = ClientLookupUi(resp)
                   /\ cache_by_id' = [cache_by_id EXCEPT
                          ![id] = Entry(ClientLookupResult(resp), ClientLookupUi(resp))]
           /\ log' = <<>>
           /\ UNCHANGED storeVars /\ UNCHANGED cache_search /\ UNCHANGED renderVars /\ UNCHANGED pageVars

\* The ttl of a cache entry runs out.
CacheExpire ==
    /\ \/ \E k \in HttpSearchKeys :
            /\ cache_search[k].hit
            /\ cache_search' = [cache_search EXCEPT ![k] = NoEntry]
            /\ UNCHANGED cache_by_id
       \/ \E id \in HttpIds :
            /\ cache_by_id[id].hit
            /\ cache_by_id' = [cache_by_id EXCEPT ![id] = NoEntry]
            /\ UNCHANGED cache_search
    /\ Event("cache.expire")
    /\ UNCHANGED storeVars /\ UNCHANGED renderVars /\ UNCHANGED pageVars

\* A form that looks at the name before the member id.
FormQueryNameFirst(m, n, p) ==
    IF n # <<>> THEN <<n, "name">>
    ELSE IF m # <<>> THEN <<m, "member_id">>
    ELSE IF p # <<>> THEN <<p, "phone">>
    ELSE <<QNone, "all">>

\* search_customers_from_db: the (query, search_type) pair chosen from the
\* three inputs.
FormQuery(m, n, p) ==
    IF m # <<>> THEN <<m, "member_id">>
    ELSE IF n # <<>> THEN <<n, "name">>
    ELSE IF p # <<>> THEN <<p, "phone">>
    ELSE <<QNone, "all">>

FormSearchResult(resp) ==
    IF resp.status = "200" THEN Out("list", resp.rows) ELSE None

FormSearchUi(resp) ==
    CASE resp.status = "200"       -> <<>>
      [] resp.status = "exception" -> <<"st.error: search raised">>
      [] OTHER                     -> <<"st.error: search failed">>

SearchCustomersFromDb ==
    \E m \in FormIds, n \in FormNames, p \in FormPhones, net \in BOOLEAN :
        LET qt   == FormQuery(m, n, p)
            resp == IF net
                    THEN ServerSearch(qt[1], qt[2], db_type, store, storeUp, FALSE)
                    ELSE TransportError
        IN /\ IF Falsy(qt[1])
              THEN /\ call' = Call("search_customers_from_db", qt[1], qt[2], <<>>, <<m, n, p>>, "none")
                   /\ ret' = None
                   /\ ui' = <<"st.warning: enter a search condition">>
              ELSE /\ call' = Call("search_customers_from_db", qt[1], qt[2], <<>>, <<m, n, p>>, resp.status)
                   /\ ret' = FormSearchResult(resp)
                   /\ ui' = FormSearchUi(resp)
           /\ log' = <<>>
           /\ UNCHANGED storeVars /\ UNCHANGED cacheVars /\ UNCHANGED renderVars /\ UNCHANGED pageVars

----------------------------------------------------------------------------
(* Specification of the client and the data-access layer it reaches *)

ApiQueries == { Q091, QSmall }

DbSearchApi == DbSearch(ApiQueries)

Init ==
    /\ db_type \in {"sqlite", "postgresql"}
    /\ store = <<>>
    /\ storeUp = TRUE
    /\ InitObserved
    /\ cache_search = [k \in HttpSearchKeys |-> NoEntry]
    /\ cache_by_id = [id \in HttpIds |-> NoEntry]
    /\ InitNoRender
    /\ InitNoPage

Next ==
    \/ InsertRow(RowPool, MaxApiRows)
    \/ DeleteRow
    \/ StoreOutage
    \/ DbSearchApi
    \/ DbGetCustomerById
    \/ HttpSearchCustomers
    \/ HttpGetCustomerById
    \/ SearchCustomersFromDb
    \/ CacheExpire

Spec == Init /\ [][Next]_vars

----------------------------------------------------------------------------
(* streamlit_app.py: the record grid of generate_pdf_report and the points *)
(* column of display_customers_as_dataframe                                *)

\* A customer record is a Python dict: a sequence of items in insertion
\* order, each key at most once.  The value of "points" is an integer, every
\* other value a text.
Item(k, v) == [key |-> k, val |-> v]

HasKey(d, k) == \E i \in 1..Len(d) : d[i].key = k

\* dict.get(k, default)
Get(d, k, default) ==
    IF HasKey(d, k) THEN d[CHOOSE i \in 1..Len(d) : d[i].key = k].val ELSE default

NA == <<"N", "/", "A">>

\* f"{n:,}": the digits of n in groups of three, separated by commas.
RECURSIVE Group(_)
Group(ds) ==
    IF Len(ds) <= 3 THEN ds
    ELSE Group(SubSeq(ds, 1, Len(ds) - 3)) \o <<",">> \o SubSeq(ds, Len(ds) - 2, Len(ds))

Thousands(n) == Group(Digits(n))

\* The unit suffix " 點".
UnitSuffix == <<" ", "dian">>

\* f"{customer_data.get('points', 0):,} 點"
PointsCell(d) == Thousands(Get(d, "points", 0)) \o UnitSuffix

LabelItem    == <<"xiang", "mu">>
LabelContent == <<"nei", "rong">>
LabelId      == <<"hui", "yuan", "bian", "hao">>
LabelName    == <<"ke", "hu", "xing", "ming">>
LabelPhone   == <<"lian", "luo", "dian", "hua">>
LabelEmail   == <<"dian", "zi", "you", "jian">>
LabelAddress == <<"lian", "luo", "di", "zhi">>
LabelJoin    == <<"jia", "ru", "ri", "qi">>
LabelLevel   == <<"hui", "yuan", "deng", "ji">>
LabelStatus  == <<"hui", "yuan", "zhuang", "tai">>
LabelPoints  == <<"lei", "ji", "dian", "shu">>
LabelVisit   == <<"zui", "hou", "lai", "fang">>

\* A grid whose second and third field rows changed places.
TableDataSwapped(d) ==
    << <<LabelItem, LabelContent, LabelItem, LabelContent>>,
       <<LabelId, Get(d, "member_id", NA), LabelName, Get(d, "name", NA)>>,
       <<LabelAddress, Get(d, "address", NA), LabelJoin, Get(d, "join_date", NA)>>,
       <<LabelPhone, Get(d, "phone", NA), LabelEmail, Get(d, "email", NA)>>,
       <<LabelLevel, Get(d, "level", NA), LabelStatus, Get(d, "status", NA)>>,
       <<LabelPoints, PointsCell(d), LabelVisit, Get(d, "last_visit", NA)>> >>

\* table_data of generate_pdf_report
TableData(d) ==
    << <<LabelItem, LabelContent, LabelItem, LabelContent>>,
       <<LabelId, Get(d, "member_id", NA), LabelName, Get(d, "name", NA)>>,
       <<LabelPhone, Get(d, "phone", NA), LabelEmail, Get(d, "email", NA)>>,
       <<LabelAddress, Get(d, "address", NA), LabelJoin, Get(d, "join_date", NA)>>,
       <<LabelLevel, Get(d, "level", NA), LabelStatus, Get(d, "status", NA)>>,
       <<LabelPoints, PointsCell(d), LabelVisit, Get(d, "last_visit", NA)>> >>

\* pd.DataFrame(customers)['points']: "absent" when no record has the key (the
\* column is then filled with 'N/A'), "int64" when every record has an
\* integer, "float64" when some record lacks the key: the missing values
\* become NaN and the integers floats.
PointsDtype(cs) ==
    IF \A i \in 1..Len(cs) : ~HasKey(cs[i], "points") THEN "absent"
    ELSE IF \A i \in 1..Len(cs) : HasKey(cs[i], "points") THEN "int64"
    ELSE "float64"

\* str(x) of a float holding an integer value: "1234567.0"
FloatText(n) == Digits(n) \o <<".", "0">>

NaNText == <<"n", "a", "n">>

\* The lambda applied to the points column:
\*   f"{x:,} 點" if pd.notnull(x) and str(x).isdigit() else str(x)
PointsShown(cs, i) ==
    CASE PointsDtype(cs) = "absent" -> NA
      [] PointsDtype(cs) = "int64"  -> Thousands(Get(cs[i], "points", 0)) \o UnitSuffix
      [] OTHER -> IF HasKey(cs[i], "points")
                  THEN FloatText(Get(cs[i], "points", 0))
                  ELSE NaNText

PointsColumn(cs) == [i \in 1..Len(cs) |-> PointsShown(cs, i)]

----------------------------------------------------------------------------
(* Specification of the renderer and the tabular display *)

MaxCustomers == 2    \* records in one displayed table

TextFields == <<"member_id", "name", "phone", "email", "address",
                "join_date", "level", "status", "last_visit">>

\* The value each text field has when the record carries it.
TextValue(k) ==
    CASE k = "member_id"  -> M001
      [] k = "name"       -> <<"wang", "xiao", "ming">>
      [] k = "phone"      -> <<"0", "9", "1", "2">>
      [] k = "email"      -> <<"w", "@", "x">>
      [] k = "address"    -> <<"tai", "bei">>
      [] k = "join_date"  -> <<"2", "0", "2", "4", "-", "0", "1">>
      [] k = "level"      -> <<"jin", "ka">>
      [] k = "status"     -> <<"zheng", "chang">>
      [] k = "last_visit" -> <<"2", "0", "2", "5", "-", "0", "3">>

PointsValues == {0, 7, 999, 1000, 12345, 1234567}

\* All items of a full record, the points item first or last.
FullRecord(n, pointsFirst) ==
    LET texts == [i \in 1..Len(TextFields) |-> Item(TextFields[i], TextValue(TextFields[i]))]
    IN IF pointsFirst THEN <<Item("points", n)>> \o texts
       ELSE texts \o <<Item("points", n)>>

\* The records handed to the renderer: any subset of the ten keys, in the
\* order above or in its reverse.
RenderInputs ==
    { SelectSeq(IF rv THEN Reverse(FullRecord(n, pf)) ELSE FullRecord(n, pf),
                LAMBDA it : it.key \in present) :
        n \in PointsValues, pf \in BOOLEAN, rv \in BOOLEAN,
        present \in SUBSET (Range(TextFields) \cup {"points"}) }

\* The records of a displayed table: with or without a points value.
DisplayRecords ==
    { <<Item("member_id", M001)>> } \cup
    { <<Item("member_id", M001), Item("points", n)>> : n \in PointsValues }

RECURSIVE SeqsUpTo(_, _)
SeqsUpTo(S, n) ==
    IF n = 0 THEN { <<>> }
    ELSE SeqsUpTo(S, n - 1) \cup
         { Append(sq, x) : sq \in { t \in SeqsUpTo(S, n - 1) : Len(t) = n - 1 }, x \in S }

\* getSampleStyleSheet(): the stock styles 'Normal' and 'Title' of the
\* PDF library (Title is set in the bold face of the base font).
StyleNormal == [fontName |-> "Helvetica", fontSize |-> 10]
StyleTitle  == [fontName |-> "Helvetica-Bold", fontSize |-> 18]

\* font_path: the first candidate that exists, "" for None.
RECURSIVE FirstExisting(_, _)
FirstExisting(paths, files) ==
    IF paths = <<>> THEN ""
    ELSE IF Head(paths) \in files THEN Head(paths)
    ELSE FirstExisting(Tail(paths), files)

\* Whether the 'ChineseFont' styles were built: a candidate exists and
\* registerFont accepted it; every except clause and the else branch leave
\* the stock styles.
FontRegistered(env) ==
    /\ env.cwd
    /\ FirstExisting(PossiblePaths, env.files) # ""
    /\ env.registers

ChineseStyle(env) ==
    IF FontRegistered(env) THEN [fontName |-> "ChineseFont", fontSize |-> 11]
    ELSE StyleNormal

\* A title set in the style of the body text.
TitleStyleOfBody(env) == ChineseStyle(env)

TitleStyle(env) ==
    IF FontRegistered(env) THEN [fontName |-> "ChineseFont", fontSize |-> 16]
    ELSE StyleTitle

\* The font of each part of the document: the title paragraph takes
\* title_style; the three tables take chinese_style.fontName; the footer
\* style has chinese_style as its parent and names no font.
FontsUsed(env) ==
    [ title  |-> TitleStyle(env).fontName,
      grid   |-> ChineseStyle(env).fontName,
      info   |-> ChineseStyle(env).fontName,
      notes  |-> ChineseStyle(env).fontName,
      footer |-> ChineseStyle(env).fontName ]

\* A NULL points column reaches the renderer as None.
NullPoints == -1

\* f"{customer_data.get('points', 0):,}" raises TypeError on None.
RenderRaises(d) == HasKey(d, "points") /\ Get(d, "points", 0) = NullPoints

\* generate_pdf_report(customer_data): the fonts it chooses and the grid it
\* builds, or the exception of the points cell.
GeneratePdfReport ==
    /\ fonts' = IF RenderRaises(customer_data) THEN NoFonts ELSE FontsUsed(font_env)
    /\ table_data' = IF RenderRaises(customer_data) THEN <<>> ELSE TableData(customer_data)
    /\ call' = Call("generate_pdf_report", <<>>, "", <<>>, <<>>, "none")
    /\ ret' = IF RenderRaises(customer_data) THEN Raised ELSE Out("bytes", <<>>)
    /\ log' = <<>>
    /\ ui' = <<>>
    /\ UNCHANGED <<customer_data, customers, df_points, font_env>>
    /\ UNCHANGED <<batchVars, print_log, sessionVars, db_config>>
    /\ UNCHANGED storeVars /\ UNCHANGED cacheVars

\* display_customers_as_dataframe(customers): the points column it shows;
\* an empty list shows st.info and returns None.
DisplayCustomersAsDataframe ==
    /\ df_points' = PointsColumn(customers)
    /\ call' = Call("display_customers_as_dataframe", <<>>, "", <<>>, <<>>, "none")
    /\ ret' = IF customers = <<>> THEN None ELSE Out("dataframe", <<>>)
    /\ log' = <<>>
    /\ ui' = IF customers = <<>> THEN <<"st.info: no customer data">> ELSE <<>>
    /\ UNCHANGED <<customer_data, customers, table_data>>
    /\ UNCHANGED storeVars /\ UNCHANGED cacheVars /\ UNCHANGED pageVars

\* The inputs are drawn at the start: a record for the renderer, or the
\* records of a table for the display.
InitRender ==
    /\ db_type = "sqlite"
    /\ store = <<>>
    /\ storeUp = TRUE
    /\ InitObserved
    /\ InitNoClient
    /\ table_data = <<>>
    /\ df_points = <<>>
    /\ \/ customer_data \in RenderInputs /\ customers = <<>>
       \/ customer_data = <<>> /\ customers \in SeqsUpTo(DisplayRecords, MaxCustomers)
    /\ InitNoPage

NextRender ==
    \/ GeneratePdfReport
    \/ DisplayCustomersAsDataframe

SpecRender == InitRender /\ [][NextRender]_vars

\* The renderer under every font environment, on full records and on one
\* whose points column is NULL.
FontInputs ==
    { FullRecord(n, pf) : n \in PointsValues \cup {NullPoints}, pf \in BOOLEAN }

InitFont ==
    /\ db_type = "sqlite"
    /\ store = <<>>
    /\ storeUp = TRUE
    /\ InitObserved
    /\ InitNoClient
    /\ customer_data \in FontInputs
    /\ table_data = <<>>
    /\ customers = <<>>
    /\ df_points = <<>>
    /\ font_env \in FontEnvs
    /\ fonts = NoFonts
    /\ InitNoBatch
    /\ print_log = <<>>
    /\ InitNoSession
    /\ db_config = DefaultConfig

NextFont == GeneratePdfReport

SpecFont == InitFont /\ [][NextFont]_vars

----------------------------------------------------------------------------
(* Batch export: display_search_results and generate_batch_pdf_reports *)

MaxBatch == 3        \* records in one page of search results

\* Records of a result page: one that renders, one whose points column is
\* NULL, one whose name holds parentheses.
BatchWang  == << Item("member_id", M001),
                 Item("name", <<"wang", "xiao", "ming">>),
                 Item("points", 7) >>
BatchChen  == << Item("member_id", M002),
                 Item("name", <<"chen", "xiao", "hua">>),
                 Item("points", NullPoints) >>
BatchParen == << Item("member_id", <<"A", "7">>),
                 Item("name", <<"A", "m", "y", " ", "(", "V", "I", "P", ")">>),
                 Item("points", 7) >>

BatchPool == {BatchWang, BatchChen, BatchParen}

\* f"{c['name']} ({c['member_id']})"
Option(c) ==
    Get(c, "name", <<>>) \o <<" ", "(">> \o Get(c, "member_id", <<>>) \o <<")">>

\* str.split(sep) for a one-character separator.
RECURSIVE Split(_, _)
Split(s, sep) ==
    IF \A i \in 1..Len(s) : s[i] # sep THEN <<s>>
    ELSE LET i == CHOOSE k \in 1..Len(s) :
                      s[k] = sep /\ \A j \in 1..(k - 1) : s[j] # sep
         IN <<SubSeq(s, 1, i - 1)>> \o Split(SubSeq(s, i + 1, Len(s)), sep)

\* customer_info.split('(')[1] raises IndexError without a parenthesis.
ParseRaises(info) == Len(Split(info, "(")) < 2

\* customer_info.split('(')[1].split(')')[0]
ParseMemberId(info) == Split(Split(info, "(")[2], ")")[1]

\* next((c for c in all_customers if c['member_id'] == member_id), None);
\* the empty record stands for None, which `if customer:` treats alike.
FirstWithId(all, id) ==
    LET hits == SelectSeq(all, LAMBDA c : Get(c, "member_id", <<>>) = id)
    IN IF hits = <<>> THEN <<>> ELSE hits[1]

\* f"客戶資料_{customer['member_id']}_{customer['name']}.pdf"
FileName(c) ==
    <<"ke", "hu", "zi", "liao", "_">> \o Get(c, "member_id", <<>>) \o <<"_">>
        \o Get(c, "name", <<>>) \o <<".", "p", "d", "f">>

\* The record the loop resolves for one picked option.
Resolved(info, all) == FirstWithId(all, ParseMemberId(info))

\* zip_file.writestr entries, in the order written.
RECURSIVE BatchZip(_, _)
BatchZip(sel, all) ==
    IF sel = <<>> THEN <<>>
    ELSE LET c == Resolved(Head(sel), all)
         IN (IF c # <<>> /\ ~RenderRaises(c)
             THEN << [name |-> FileName(c), data |-> TableData(c)] >>
             ELSE <<>>) \o BatchZip(Tail(sel), all)

\* st.error messages of the except clause, one per record whose render raised.
RECURSIVE BatchErrors(_, _)
BatchErrors(sel, all) ==
    IF sel = <<>> THEN <<>>
    ELSE LET c == Resolved(Head(sel), all)
         IN (IF c # <<>> /\ RenderRaises(c)
             THEN << "st.error: generating the PDF failed" >>
             ELSE <<>>) \o BatchErrors(Tail(sel), all)

\* generate_batch_pdf_reports(selected_customers, all_customers): returns
\* zip_buffer.getvalue(); the parse of an option stands outside the try.
GenerateBatchPdfReports ==
    LET bad == \E j \in 1..Len(selected_customers) : ParseRaises(selected_customers[j])
    IN /\ call' = Call("generate_batch_pdf_reports", <<>>, "", <<>>, <<>>, "none")
       /\ ret' = IF bad THEN Raised
                 ELSE Out("bytes", BatchZip(selected_customers, all_customers))
       /\ ui' = IF bad THEN <<>> ELSE BatchErrors(selected_customers, all_customers)
       /\ log' = <<>>
       /\ UNCHANGED storeVars /\ UNCHANGED cacheVars /\ UNCHANGED renderVars /\ UNCHANGED pageVars

\* The options of the records at the positions picked, in page order.
OptionsAt(all, picked) ==
    LET idx == SelectSeq([i \in 1..Len(all) |-> i], LAMBDA i : i \in picked)
    IN [j \in 1..Len(idx) |-> Option(all[idx[j]])]

\* A page of results is shown and at least one option is picked (the batch
\* button does nothing on an empty selection).
InitBatch ==
    /\ db_type = "sqlite"
    /\ store = <<>>
    /\ storeUp = TRUE
    /\ InitObserved
    /\ InitNoClient
    /\ InitNoRender
    /\ InitNoFont
    /\ all_customers \in SeqsUpTo(BatchPool, MaxBatch) \ { <<>> }
    /\ \E picked \in (SUBSET (1..Len(all_customers))) \ { {} } :
           selected_customers = OptionsAt(all_customers, picked)
    /\ print_log = <<>>
    /\ InitNoSession
    /\ db_config = DefaultConfig

NextBatch == GenerateBatchPdfReports

SpecBatch == InitBatch /\ [][NextBatch]_vars

----------------------------------------------------------------------------
(* Print log: log_print_action *)

\* The other keys log_print_action reads from the item.
PrintKeys == <<"product_id", "product_name", "channel", "store_code">>

PrintValue(k) ==
    CASE k = "product_id"   -> <<"P", "1">>
      [] k = "product_name" -> <<"tea">>
      [] k = "channel"      -> <<"web">>
      [] k = "store_code"   -> <<"S", "1">>

\* An item that is no dict (None).
NoItem == << Item("<None>", <<>>) >>

\* The items handed to log_print_action: dicts with any of the keys, the
\* order id absent, empty or set, and the item that is no dict.
PrintItems ==
    { (IF o = QNone THEN <<>> ELSE <<Item("order_id", o)>>) \o
      SelectSeq([i \in 1..Len(PrintKeys) |-> Item(PrintKeys[i], PrintValue(PrintKeys[i]))],
                LAMBDA it : it.key \in present) :
        o \in {QNone, <<>>, <<"O", "1">>}, present \in SUBSET Range(PrintKeys) }
    \cup {NoItem}

\* What becomes of requests.post(..., timeout=5): a response of any status,
\* a connection error, or a timeout.
PostOutcomes == {"200", "500", "exception", "timeout"}

\* Python's `a or b`.
Or(a, b) == IF Falsy(a) THEN b ELSE a

\* log_data, without its timestamp.
LogData(item) ==
    [ item_id    |-> Or(Get(item, "order_id", QNone), Get(item, "product_id", QNone)),
      item_name  |-> Get(item, "product_name", QNone),
      channel    |-> Get(item, "channel", QNone),
      store_code |-> Get(item, "store_code", QNone),
      user_agent |-> "Streamlit App" ]

\* item_data.get raises AttributeError when the item is no dict.
LogDataRaises(item) == item = NoItem

\* Whether the try block raised: building log_data, or the transport.
PostFailed(item, outcome) ==
    LogDataRaises(item) \/ outcome \in {"exception", "timeout"}

\* A logger that lets the failure of the POST reach its caller.
LogPrintResultStrict(item, outcome) ==
    IF PostFailed(item, outcome) THEN Raised ELSE None

\* The except clause shows st.warning; the function falls off its end
\* either way and returns None.  The response status is never read.
LogPrintResult(item, outcome) == None

LogPrintUi(item, outcome) ==
    IF PostFailed(item, outcome) THEN <<"st.warning: print log failed">> ELSE <<>>

LogPrintAction ==
    \E item \in PrintItems, outcome \in PostOutcomes :
        /\ call' = Call("log_print_action", <<>>, "", <<>>, item,
                        IF LogDataRaises(item) THEN "none" ELSE outcome)
        /\ print_log' = IF LogDataRaises(item) THEN print_log ELSE LogData(item)
        /\ ret' = LogPrintResult(item, outcome)
        /\ ui' = LogPrintUi(item, outcome)
        /\ log' = <<>>
        /\ UNCHANGED storeVars /\ UNCHANGED cacheVars /\ UNCHANGED renderVars
        /\ UNCHANGED <<fontVars, batchVars, sessionVars, db_config>>

InitPrint ==
    /\ db_type = "sqlite"
    /\ store = <<>>
    /\ storeUp = TRUE
    /\ InitRest

NextPrint == LogPrintAction

SpecPrint == InitPrint /\ [][NextPrint]_vars

----------------------------------------------------------------------------
(* The search page: database_search_interface *)

\* A page that marks a search as performed whatever came of it.
SessionAfterSearchAlways(found, results, performed) ==
    << IF found # None THEN found.rows ELSE <<>>, TRUE >>

\* if customers is not None: search_results = customers; search_performed =
\* True.  The pair <<search_results, search_performed>> after the button.
SessionAfterSearch(found, results, performed) ==
    IF found # None THEN << found.rows, TRUE >> ELSE << results, performed >>

\* What the page shows below the buttons.
ResultsShown(results, performed) ==
    IF performed /\ results # <<>> THEN <<"st.success: customers found">>
    ELSE IF performed THEN <<"st.info: no customer matches">>
    ELSE <<>>

\* The search button of database_search_interface.
PressSearch ==
    \E m \in FormIds, n \in FormNames, p \in FormPhones, net \in BOOLEAN :
        LET qt    == FormQuery(m, n, p)
            resp  == IF net
                     THEN ServerSearch(qt[1], qt[2], db_type, store, storeUp, FALSE)
                     ELSE TransportError
            found == IF Falsy(qt[1]) THEN None ELSE FormSearchResult(resp)
            msgs  == IF Falsy(qt[1]) THEN <<"st.warning: enter a search condition">>
                     ELSE FormSearchUi(resp)
            after == SessionAfterSearch(found, search_results, search_performed)
        IN /\ call' = Call("database_search_interface.search", qt[1], qt[2], <<>>,
                           <<m, n, p>>, IF Falsy(qt[1]) THEN "none" ELSE resp.status)
           /\ ret' = found
           /\ search_results' = after[1]
           /\ search_performed' = after[2]
           /\ ui' = msgs \o ResultsShown(after[1], after[2])
           /\ log' = <<>>
           /\ UNCHANGED storeVars /\ UNCHANGED cacheVars /\ UNCHANGED renderVars
           /\ UNCHANGED <<fontVars, batchVars, print_log, db_config>>

\* The clear button: both entries are reset and the script reruns.
PressClear ==
    /\ search_results' = <<>>
    /\ search_performed' = FALSE
    /\ call' = Call("database_search_interface.clear", <<>>, "", <<>>, <<>>, "none")
    /\ ret' = None
    /\ ui' = ResultsShown(<<>>, FALSE)
    /\ log' = <<>>
    /\ UNCHANGED storeVars /\ UNCHANGED cacheVars /\ UNCHANGED renderVars
    /\ UNCHANGED <<fontVars, batchVars, print_log, db_config>>

InitUi ==
    /\ db_type \in {"sqlite", "postgresql"}
    /\ store = <<>>
    /\ storeUp = TRUE
    /\ InitRest

NextUi ==
    \/ InsertRow(RowPool, MaxApiRows)
    \/ DeleteRow
    \/ StoreOutage
    \/ PressSearch
    \/ PressClear

SpecUi == InitUi /\ [][NextUi]_vars

----------------------------------------------------------------------------
(* Database settings: DatabaseConfig and get_database_info *)

PgScheme     == <<"p", "o", "s", "t", "g", "r", "e", "s", "q", "l", ":", "/", "/">>
SqliteScheme == <<"s", "q", "l", "i", "t", "e", ":", "/", "/", "/">>
Mask         == <<"*", "*", "*">>

\* The PostgreSQL URL with pw in the password position.
PgUrl(cfg, pw) ==
    PgScheme \o cfg.postgres_user \o <<":">> \o pw \o <<"@">>
        \o cfg.postgres_host \o <<":">> \o cfg.postgres_port
        \o <<"/">> \o cfg.postgres_db

\* DatabaseConfig.get_database_url
GetDatabaseUrl(t, cfg) ==
    IF IsPostgres(t) THEN PgUrl(cfg, cfg.postgres_password)
    ELSE SqliteScheme \o cfg.sqlite_path

\* str(engine.url): the URL create_engine was given; the database toolkit
\* renders the password either as it is or as "***", depending on its
\* version.
EngineUrl(t, cfg, hide) ==
    IF IsPostgres(t) /\ hide THEN PgUrl(cfg, Mask) ELSE GetDatabaseUrl(t, cfg)

\* str.replace(old, new): every non-overlapping occurrence, left to right;
\* an empty old matches before every character and at the end.
RECURSIVE Replace(_, _, _)
Replace(s, old, new) ==
    IF old = <<>>
    THEN IF s = <<>> THEN new ELSE new \o <<Head(s)>> \o Replace(Tail(s), old, new)
    ELSE IF Len(s) < Len(old) THEN s
    ELSE IF SubSeq(s, 1, Len(old)) = old
         THEN new \o Replace(SubSeq(s, Len(old) + 1, Len(s)), old, new)
         ELSE <<Head(s)>> \o Replace(Tail(s), old, new)

\* The masking of get_database_info applies when db_type == "postgresql".
Masked(t, cfg, url) ==
    IF t = "postgresql" THEN Replace(url, cfg.postgres_password, Mask) ELSE url

\* get_database_info()
DatabaseInfo(t, cfg, hide) ==
    [ type   |-> t,
      url    |-> Masked(t, cfg, GetDatabaseUrl(t, cfg)),
      engine |-> Masked(t, cfg, EngineUrl(t, cfg, hide)) ]

GetDatabaseInfo ==
    \E hide \in BOOLEAN :
        /\ call' = Call("get_database_info", <<>>, "", <<>>, <<>>, "none")
        /\ ret' = Out("dict", DatabaseInfo(db_type, db_config, hide))
        /\ log' = <<>>
        /\ ui' = <<>>
        /\ UNCHANGED storeVars /\ UNCHANGED cacheVars /\ UNCHANGED renderVars /\ UNCHANGED pageVars

\* Settings the environment may hold: the default password, one that is
\* also the user name, one that occurs in the scheme of the URL.
Passwords == { DefaultConfig.postgres_password, <<"s", "3", "c">>, <<"p", "o", "s", "t">> }
Users     == { DefaultConfig.postgres_user, <<"s", "3", "c">> }
Hosts     == { DefaultConfig.postgres_host, <<"d", "b">> }
SqlitePaths == { DefaultConfig.sqlite_path, <<"a", ".", "d", "b">> }

Configs ==
    { [DefaultConfig EXCEPT !.postgres_password = pw, !.postgres_user = u,
                            !.postgres_host = h, !.sqlite_path = sp] :
        pw \in Passwords, u \in Users, h \in Hosts, sp \in SqlitePaths }

\* The settings are read once, when the module is imported.
InitConfig ==
    /\ db_type \in DbTypes
    /\ store = <<>>
    /\ storeUp = TRUE
    /\ InitObserved
    /\ InitNoClient
    /\ InitNoRender
    /\ InitNoFont
    /\ InitNoBatch
    /\ print_log = <<>>
    /\ InitNoSession
    /\ db_config \in Configs

NextConfig == GetDatabaseInfo

SpecConfig == InitConfig /\ [][NextConfig]_vars

----------------------------------------------------------------------------
(* Claims about search_customers on a small store (SpecSearch) *)

FieldOf(row, t) ==
    CASE t = "member_id" -> row.member_id
      [] t = "name"      -> row.name
      [] t = "phone"     -> row.phone
      [] t = "email"     -> row.email

\* The predicate of the "all" selector: some of member_id, name, phone,
\* email contains the query as a case-insensitive substring.
MatchesAny(row, q) ==
    \E f \in {"member_id", "name", "phone", "email"} : ContainsCI(FieldOf(row, f), q)

SearchAnswered ==
    /\ call.fn = "db.search_customers"
    /\ storeUp

\* C2: for a non-empty query and selector "all", on either engine, the
\* search returns a stored record if and only if one of its member_id, name,
\* phone, email contains the query as a case-insensitive substring.
C2_AllSelectorIffContains ==
    (SearchAnswered /\ ~Falsy(call.q) /\ call.t = "all") =>
        /\ ret.kind = "list"
        /\ \A i \in 1..Len(store) :
              (store[i] \in Range(ret.rows)) <=> MatchesAny(store[i], call.q)

\* C4: for a non-empty query and a selector among member_id, name, phone,
\* the search returns a sequence (never None, never an error) holding
\* exactly the stored records whose named field contains the query.
C4_NamedFieldOnly ==
    (SearchAnswered /\ ~Falsy(call.q) /\ call.t \in {"member_id", "name", "phone"}) =>
        /\ ret.kind = "list"
        /\ \A i \in 1..Len(store) :
              (store[i] \in Range(ret.rows)) <=> ContainsCI(FieldOf(store[i], call.t), call.q)

\* A last visit as a recency: a record never visited is the least recent.
Recency(row) == row.last_visit

\* C3: with an empty or absent query, whatever the selector, the search
\* does not fail and returns at most 20 records: the most recently visited
\* ones, in descending last_visit order.
C3_DefaultListing ==
    (SearchAnswered /\ Falsy(call.q)) =>
        /\ ret.kind = "list"
        /\ Len(ret.rows) <= PageSize
        /\ Range(ret.rows) \subseteq Range(store)
        /\ Len(ret.rows) = Cardinality(Range(ret.rows))
        /\ Len(store) <= PageSize => Len(ret.rows) = Len(store)
        /\ Len(store) > PageSize => Len(ret.rows) = PageSize
        /\ \A i, j \in 1..Len(ret.rows) :
              i < j => Recency(ret.rows[i]) >= Recency(ret.rows[j])
        /\ \A r \in Range(ret.rows), o \in Range(store) \ Range(ret.rows) :
              Recency(r) >= Recency(o)

----------------------------------------------------------------------------
(* Claims about the entry points of the client specification (Spec) *)

SearchFns == {"db.search_customers", "http.search_customers", "search_customers_from_db"}
LookupFns == {"db.get_customer_by_id", "http.get_customer_by_id"}

\* The query of a data-access call, or the request of a client call, failed:
\* the store raised, the transport raised, or the status was an error.
RequestFailed ==
    \/ call.fn \in {"db.search_customers", "db.get_customer_by_id"} /\ ~storeUp
    \/ call.req \in {"500", "exception"}

\* The value a successful search with zero matches returns.
EmptyResult == Out("list", <<>>)

\* C1: at every search entry point, a failed query or request gives the
\* caller something other than what a successful search with no match gives.
C1_FailureIsNotEmptyResult ==
    (call.fn \in SearchFns /\ RequestFailed) => ret # EmptyResult

IdStored(id) == \E i \in 1..Len(store) : store[i].member_id = id

\* C5: a lookup the store answers returns a stored record whose member_id
\* equals the id (the first such row), and None when no row has that id; the
\* client returns None on a 404 response.
C5_LookupByExactId ==
    /\ (call.fn = "db.get_customer_by_id" /\ storeUp) =>
          IF IdStored(call.id)
          THEN /\ ret.kind = "row"
               /\ ret.rows[1].member_id = call.id
               /\ \E i \in 1..Len(store) :
                     /\ store[i] = ret.rows[1]
                     /\ \A j \in 1..(i - 1) : store[j].member_id # call.id
          ELSE ret = None
    /\ (call.fn = "http.get_customer_by_id" /\ call.req = "404") => ret = None

\* A lookup found M001 in a store of two rows, the other id strings of the
\* model (a prefix, another case) being near misses of it.
C5_Witness ==
    /\ call.fn = "db.get_customer_by_id"
    /\ storeUp
    /\ call.id = M001
    /\ Len(store) = 2
    /\ ret = Out("row", <<store[1]>>)

\* C6: a lookup whose query or request failed gives the caller something
\* other than the NotFound value None.
C6_LookupFailedIsNotNotFound ==
    (call.fn \in LookupFns /\ RequestFailed) => ret # None

AnomalyLogged == \E i \in 1..Len(log) : log[i] = "get_customer_by_id: duplicate member_id"

\* C7: a lookup that sees two or more rows for the id returns the first and
\* leaves an anomaly entry in the log.
C7_DuplicateIsLogged ==
    (/\ call.fn = "db.get_customer_by_id"
     /\ storeUp
     /\ Cardinality({i \in 1..Len(store) : store[i].member_id = call.id}) >= 2) =>
        /\ ret.kind = "row"
        /\ AnomalyLogged

----------------------------------------------------------------------------
(* Claims about the record grid and the points column (SpecRender) *)

AllFields == Range(TextFields) \cup {"points"}

LabelOf(k) ==
    CASE k = "member_id"  -> LabelId
      [] k = "name"       -> LabelName
      [] k = "phone"      -> LabelPhone
      [] k = "email"      -> LabelEmail
      [] k = "address"    -> LabelAddress
      [] k = "join_date"  -> LabelJoin
      [] k = "level"      -> LabelLevel
      [] k = "status"     -> LabelStatus
      [] k = "points"     -> LabelPoints
      [] k = "last_visit" -> LabelVisit

\* The value cell of a field: the cell to the right of the field's label.
LabelCells(grid, label) ==
    { rc \in (1..Len(grid)) \X (1..3) :
          Len(grid[rc[1]]) = 4 /\ grid[rc[1]][rc[2]] = label }

CellAfter(grid, label) ==
    LET rc == CHOOSE x \in LabelCells(grid, label) : TRUE
    IN grid[rc[1]][rc[2] + 1]

Rendered == call.fn = "generate_pdf_report"

\* C8: generate_pdf_report does not raise whatever keys the record lacks,
\* and the value cell of every absent field reads "N/A".
C8_AbsentFieldsReadNA ==
    Rendered =>
        /\ ret.kind # "raise"
        /\ \A k \in AllFields :
              ~HasKey(customer_data, k) =>
                  /\ LabelCells(table_data, LabelOf(k)) # {}
                  /\ CellAfter(table_data, LabelOf(k)) = NA

StripCommas(t) == SelectSeq(t, LAMBDA c : c # ",")

\* t is n written with thousands separators and the unit suffix: without
\* its commas it is the decimal numeral of n, it does not start with a
\* comma, and a comma stands exactly before every group of three digits.
IsPointsText(t, n) ==
    /\ Len(t) >= 3
    /\ SubSeq(t, Len(t) - 1, Len(t)) = UnitSuffix
    /\ LET b == SubSeq(t, 1, Len(t) - 2)
       IN /\ StripCommas(b) = Digits(n)
          /\ b[1] # ","
          /\ \A i \in 1..Len(b) : (b[i] = ",") <=> ((Len(b) - i + 1) % 4 = 0)

\* C9: for a record with integer points, the points cell of the PDF grid is
\* the integer with thousands separators and the suffix " dian" (1234567
\* gives "1,234,567 dian"), and the points column of the tabular display
\* shows such a record the same way.
C9_PointsWithSeparators ==
    /\ (Rendered /\ HasKey(customer_data, "points")) =>
          /\ IsPointsText(CellAfter(table_data, LabelPoints), Get(customer_data, "points", 0))
          /\ Get(customer_data, "points", 0) = 1234567 =>
                CellAfter(table_data, LabelPoints) =
                    <<"1", ",", "2", "3", "4", ",", "5", "6", "7", " ", "dian">>
    /\ df_points # <<>> =>
          \A i \in 1..Len(customers) :
              HasKey(customers[i], "points") =>
                  IsPointsText(df_points[i], Get(customers[i], "points", 0))

\* The fixed pairing order of the grid.
PairKeys ==
    << <<"member_id", "name">>, <<"phone", "email">>, <<"address", "join_date">>,
       <<"level", "status">>, <<"points", "last_visit">> >>

\* The value cell agrees with the record: a text field the record carries
\* shows its value, points show a text with the unit suffix.
ShowsField(cell, d, k) ==
    IF k = "points"
    THEN Len(cell) >= 3 /\ SubSeq(cell, Len(cell) - 1, Len(cell)) = UnitSuffix
    ELSE \A i \in 1..Len(d) : d[i].key = k => cell = d[i].val

FieldRow(row, d, pair) ==
    /\ Len(row) = 4
    /\ row[1] = LabelOf(pair[1])
    /\ ShowsField(row[2], d, pair[1])
    /\ row[3] = LabelOf(pair[2])
    /\ ShowsField(row[4], d, pair[2])

\* C10 as stated: the grid has exactly five rows of four cells, the five
\* field pairs in their fixed order.
C10_ExactlyFiveRows ==
    Rendered =>
        /\ Len(table_data) = 5
        /\ \A r \in 1..Len(table_data) :
              r <= 5 => FieldRow(table_data[r], customer_data, PairKeys[r])

\* C10 as amended: the grid has exactly six rows of four cells, a header
\* row (item, content, item, content) and then the five field pairs in
\* their fixed order, whatever the order or presence of keys in the record.
C10_HeaderAndFiveFieldRows ==
    Rendered =>
        /\ Len(table_data) = 6
        /\ table_data[1] = <<LabelItem, LabelContent, LabelItem, LabelContent>>
        /\ \A r \in 1..5 : FieldRow(table_data[r + 1], customer_data, PairKeys[r])

\* A record whose keys come in reverse order, points first, with phone and
\* name missing, was rendered.
C10_Witness ==
    /\ Rendered
    /\ Len(customer_data) = 8
    /\ customer_data[1].key = "points"
    /\ customer_data[2].key = "last_visit"
    /\ ~HasKey(customer_data, "phone")
    /\ ~HasKey(customer_data, "name")
    /\ table_data[3][4] = <<"w", "@", "x">>

----------------------------------------------------------------------------
(* Claims about the fonts of generate_pdf_report (SpecFont) *)

\* The renderer ran on a record it can render.
Produced == call.fn = "generate_pdf_report" /\ ~RenderRaises(customer_data)

BodyParts == {"grid", "info", "notes", "footer"}

\* C11 as stated: whether or not the bundled font could be registered, the
\* document is produced and one single font is used for the title, the
\* record grid, the metadata table, the annotation grid and the footer.
C11_OneFontEverywhere ==
    Produced =>
        /\ ret.kind = "bytes"
        /\ \A part \in BodyParts : fonts[part] = fonts.title

\* C11 as amended: the document is produced whether or not the bundled font
\* could be registered; the record grid, the metadata table, the annotation
\* grid and the footer share one font; the title is in that same font when
\* the bundled font was registered, and in the stock title font
\* (Helvetica-Bold, the body being Helvetica) when it was not.
C11_FallbackKeepsBodyFont ==
    Produced =>
        /\ ret.kind = "bytes"
        /\ \A part \in BodyParts : fonts[part] = fonts.grid
        /\ IF FontRegistered(font_env)
           THEN fonts.grid = "ChineseFont" /\ fonts.title = "ChineseFont"
           ELSE fonts.grid = "Helvetica" /\ fonts.title = "Helvetica-Bold"

\* The font file was found, registering it failed, and the document was
\* produced in the stock fonts.
C11_Witness ==
    /\ Produced
    /\ font_env.files # {}
    /\ ~font_env.registers
    /\ ret.kind = "bytes"
    /\ fonts.footer = "Helvetica"

----------------------------------------------------------------------------
(* Claims about generate_batch_pdf_reports (SpecBatch) *)

BatchDone == call.fn = "generate_batch_pdf_reports"

\* The record an option was built from (records with one option text are
\* equal in the pages considered).
RecordOf(info) ==
    CHOOSE c \in Range(all_customers) : Option(c) = info

\* Positions of the selection whose record renders / does not render.
Renders == { j \in 1..Len(selected_customers) : ~RenderRaises(RecordOf(selected_customers[j])) }
Fails   == { j \in 1..Len(selected_customers) : RenderRaises(RecordOf(selected_customers[j])) }

\* The error list a returned value carries; the archive bytes carry none.
ErrorList(r) == IF "errors" \in DOMAIN r THEN r.errors ELSE <<>>

EntriesNamed(name) == { k \in 1..Len(ret.rows) : ret.rows[k].name = name }

\* C12: a failure while rendering one selected record is caught and
\* recorded as one message in the error list returned with the archive, and
\* every other selected record still has its entry in the archive.
C12_FailuresReturnedWithArchive ==
    BatchDone =>
        /\ ret.kind = "bytes"
        /\ Len(ErrorList(ret)) = Cardinality(Fails)
        /\ \A j \in Renders :
              EntriesNamed(FileName(RecordOf(selected_customers[j]))) # {}

\* C13: for every selected customer whose render succeeds the archive holds
\* exactly one entry of the name built from that customer's member_id and
\* name, whatever the name (parentheses included) and even when two
\* selected customers share member_id and name.
C13_OneEntryPerCustomer ==
    BatchDone =>
        \A j \in Renders :
            Cardinality(EntriesNamed(FileName(RecordOf(selected_customers[j])))) = 1

----------------------------------------------------------------------------
(* Claims about log_print_action (SpecPrint) *)

\* C14: whatever item is passed and whatever becomes of the POST /print-log
\* request (connection error, timeout, error status, or an item that cannot
\* be read), log_print_action returns to its caller without raising, so
\* the operation that follows it proceeds.
C14_LogNeverRaises ==
    call.fn = "log_print_action" => ret = None

\* The request timed out; the caller got None and a warning was shown.
C14_Witness ==
    /\ call.fn = "log_print_action"
    /\ call.req = "timeout"
    /\ ret = None
    /\ ui # <<>>
    /\ print_log.item_id = <<"P", "1">>

----------------------------------------------------------------------------
(* Claims about the statelessness of the client's search and lookup (Spec) *)

\* What the store answers to a search / a lookup at this moment.
SearchAnswersNow(q, t) ==
    { ServerSearch(SearchParamQ(q), t, db_type, store, storeUp, rev) :
        rev \in TieOrders(q, t) }

LookupAnswerNow(id) == ServerGetById(id, store, storeUp)

\* C15: the result of search_customers(query, type) and of
\* get_customer_by_id(id) is determined by the arguments and by the store
\* as it is at the time of the call (or by the failure of that call's own
\* request), never by the outcome of an earlier call with those arguments.
C15_ResultFromCurrentStore ==
    /\ call.fn = "http.search_customers" =>
          \/ \E r \in SearchAnswersNow(call.q, call.t) : ret = ClientSearchResult(r)
          \/ call.req = "exception" /\ ret = ClientSearchResult(TransportError)
    /\ call.fn = "http.get_customer_by_id" =>
          \/ ret = ClientLookupResult(LookupAnswerNow(call.id))
          \/ call.req = "exception" /\ ret = ClientLookupResult(TransportError)

----------------------------------------------------------------------------
(* Claims about the session state of the search page (SpecUi) *)

Searched == "database_search_interface.search"
Cleared  == "database_search_interface.clear"

\* C16: search_performed starts false and becomes true only by a search
\* that succeeded; a search that fails or is rejected (None) leaves
\* search_results and search_performed as they were; a successful search
\* sets search_results to exactly its result and search_performed to true;
\* clear resets search_results to empty and search_performed to false; no
\* other step touches either.
C16_SessionFollowsSearches ==
    /\ ~search_performed
    /\ [][ /\ (call'.fn = Searched /\ ret' = None) => UNCHANGED sessionVars
           /\ (call'.fn = Searched /\ ret' # None) =>
                 search_results' = ret'.rows /\ search_performed'
           /\ call'.fn = Cleared => search_results' = <<>> /\ ~search_performed'
           /\ (search_performed' /\ ~search_performed) =>
                 call'.fn = Searched /\ ret' # None
           /\ call'.fn \notin {Searched, Cleared} => UNCHANGED sessionVars
         ]_vars

\* A search failed after an earlier one had found a record: the earlier
\* result is still in the session.
C16_Witness ==
    /\ call.fn = Searched
    /\ call.req \in {"500", "exception"}
    /\ ret = None
    /\ search_performed
    /\ search_results # <<>>

----------------------------------------------------------------------------
(* Claims about the inputs of search_customers_from_db (Spec) *)

FormSearched == call.fn = "search_customers_from_db"

\* C17: search_customers_from_db takes the first non-empty input in the
\* order member id, name, phone as the query, with that input's own
\* selector; the other inputs play no part in the request or the result;
\* with all three inputs empty it returns None and sends no request, so no
\* request carries the selector "all".
C17_FirstNonEmptyInput ==
    FormSearched =>
        LET m == call.args[1]
            n == call.args[2]
            p == call.args[3]
        IN /\ m # <<>> => call.q = m /\ call.t = "member_id"
           /\ (m = <<>> /\ n # <<>>) => call.q = n /\ call.t = "name"
           /\ (m = <<>> /\ n = <<>> /\ p # <<>>) => call.q = p /\ call.t = "phone"
           /\ (m = <<>> /\ n = <<>> /\ p = <<>>) => ret = None /\ call.req = "none"
           /\ call.req # "none" =>
                 /\ call.t # "all"
                 /\ \E r \in {ServerSearch(call.q, call.t, db_type, store, storeUp, FALSE),
                              TransportError} :
                        call.req = r.status /\ ret = FormSearchResult(r)

\* Name and phone were both entered, the member id was not: the request
\* went out as a name search and was answered.
C17_Witness ==
    /\ FormSearched
    /\ call.args = << <<>>, QSmall, Q091 >>
    /\ call.t = "name"
    /\ call.req = "200"
    /\ ret.kind = "list"

----------------------------------------------------------------------------
(* Claims about get_database_info (SpecConfig) *)

\* C18: when the PostgreSQL engine is selected (db_type is "postgresql" in
\* any letter case) neither the "url" nor the "engine" entry returned by
\* get_database_info contains the configured password; when the SQLite
\* engine is selected the returned URL is the SQLite URL unchanged.
C18_PasswordNeverReturned ==
    call.fn = "get_database_info" =>
        IF IsPostgres(db_type)
        THEN /\ ~Contains(ret.rows.url, db_config.postgres_password)
             /\ ~Contains(ret.rows.engine, db_config.postgres_password)
        ELSE ret.rows.url = SqliteScheme \o db_config.sqlite_path

====
